---------------------------- MODULE Spec2Model ----------------------------
(***************************************************************************)
(* Model of the TubeMind retrieval pipeline (backend/services/ingestion.py,*)
(* backend/services/embeddings.py, backend/main.py).                       *)
(*                                                                         *)
(* Texts are sequences of one-character strings, so that len(), strip()    *)
(* and concatenation are computed character by character.  Times are       *)
(* integers (the code's floats are only added and compared).               *)
(***************************************************************************)
EXTENDS Integers, Sequences, FiniteSets, TLC

VARIABLES
    transcript,      \* create_chunks: the argument `transcript`
    chunk_size,      \* create_chunks: the argument `chunk_size`
    chunks_out,      \* create_chunks: the returned list (<<>> before the call)
    pc,              \* "input" while the caller builds the arguments of
                     \* create_chunks, "done" after the call
    vector_stores,   \* main.py: the session store, video id -> VectorStore
    vector_store,    \* ingest_video: the VectorStore of the latest ingest (a local)
    last_search,     \* VectorStore.search: the latest call, what the index
                     \* returned and the results handed back
    response,        \* the latest HTTP response, with what the handler did
    embed_texts,     \* create_embeddings: the argument `texts`
    embed_call,      \* create_embeddings: the latest call (batch size, the remote
                     \* call that failed, what it returned and what it sent)
    ingest_frame     \* ingest_video: the locals of the call being served, when
                     \* the handler is followed statement by statement

chunker_vars == <<transcript, chunk_size, chunks_out, pc>>
service_vars == <<vector_stores, vector_store, last_search, response>>
embed_vars == <<embed_texts, embed_call>>
frame_vars == <<ingest_frame>>
vars == <<transcript, chunk_size, chunks_out, pc,
          vector_stores, vector_store, last_search, response,
          embed_texts, embed_call, ingest_frame>>

\* Python's None for a video id
None == "None"
\* an optional value: <<>> for None, <<x>> for the value x
Absent == <<>>
Some(x) == <<x>>

(***************************************************************************)
(* Bounds of the chunker's inputs.                                         *)
(***************************************************************************)
MaxSegs == 3
MaxChunkSize == 4
Alphabet == {"a", " "}
TextLens == 0..2
\* a segment's start after the previous segment's start, and its duration
Timings == {[gap |-> 0, duration |-> 0], [gap |-> 1, duration |-> 0],
            [gap |-> 1, duration |-> 2]}

Whitespace == {" "}

(***************************************************************************)
(* str.strip(): leading and trailing whitespace removed.                   *)
(***************************************************************************)
RECURSIVE lstrip(_)
lstrip(s) ==
    IF s = <<>> THEN s
    ELSE IF Head(s) \in Whitespace THEN lstrip(Tail(s)) ELSE s

RECURSIVE rstrip(_)
rstrip(s) ==
    IF s = <<>> THEN s
    ELSE IF s[Len(s)] \in Whitespace THEN rstrip(SubSeq(s, 1, Len(s) - 1)) ELSE s

strip(s) == rstrip(lstrip(s))

(***************************************************************************)
(* create_chunks (ingestion.py 129-160), one definition per statement of   *)
(* the loop body.                                                          *)
(***************************************************************************)
\* a chunker that moves the start time on with every segment
ChunkStartTimeAlways(current_chunk, chunk_start_time, segment) ==
    segment.start

\* line 146-147: if not current_chunk: chunk_start_time = segment['start']
ChunkStartTime(current_chunk, chunk_start_time, segment) ==
    IF current_chunk = <<>> THEN segment.start ELSE chunk_start_time

\* line 149: current_chunk += segment['text'] + " "
AppendSegment(current_chunk, segment) ==
    current_chunk \o segment.text \o <<" ">>

\* a chunker that forgets the segment's start in the end time
ChunkEndTimeDurationOnly(segment) ==
    segment.duration

\* line 150: chunk_end_time = segment['start'] + segment.get('duration', 0)
ChunkEndTime(segment) ==
    segment.start + segment.duration

\* a chunker without the flush at the final segment
FlushConditionNoLast(current_chunk, size, i, n) ==
    Len(current_chunk) >= size

\* a chunker that flushes one character early
FlushConditionEarly(current_chunk, size, i, n) ==
    Len(current_chunk) >= size - 1 \/ i = n

\* line 152: len(current_chunk) >= chunk_size or i == len(transcript) - 1
\* (i is the 1-based position of the segment here, n the number of segments)
FlushCondition(current_chunk, size, i, n) ==
    Len(current_chunk) >= size \/ i = n

\* lines 153-157: the appended chunk
MakeChunk(current_chunk, chunk_start_time, chunk_end_time) ==
    [text |-> strip(current_chunk),
     start_time |-> chunk_start_time,
     end_time |-> chunk_end_time]

RECURSIVE chunk_loop(_, _, _, _, _, _, _)
chunk_loop(tr, size, i, chunks, current_chunk, chunk_start_time, chunk_end_time) ==
    IF i > Len(tr) THEN chunks
    ELSE
        LET segment == tr[i]
            st  == ChunkStartTime(current_chunk, chunk_start_time, segment)
            cur == AppendSegment(current_chunk, segment)
            et  == ChunkEndTime(segment)
        IN  IF FlushCondition(cur, size, i, Len(tr))
            THEN chunk_loop(tr, size, i + 1,
                            Append(chunks, MakeChunk(cur, st, et)), <<>>, st, et)
            ELSE chunk_loop(tr, size, i + 1, chunks, cur, st, et)

create_chunks(tr, size) == chunk_loop(tr, size, 1, <<>>, <<>>, 0, 0)

(***************************************************************************)
(* Inputs of the chunker: ordered segment sequences.                       *)
(***************************************************************************)
Texts == UNION {[1..k -> Alphabet] : k \in TextLens}

SegmentChoices ==
    {[text |-> t, gap |-> g.gap, duration |-> g.duration] :
        t \in Texts, g \in Timings}

\* the segment that follows the transcript tr, starting gap after its last start
NextSegment(tr, c) ==
    [text |-> c.text,
     start |-> (IF tr = <<>> THEN 0 ELSE tr[Len(tr)].start) + c.gap,
     duration |-> c.duration]

\* the scenario of the specification's section 8
ScenarioSegments ==
    << [text |-> <<"i","n","t","r","o">>, start |-> 0, duration |-> 3],
       [text |-> <<"d","e","t","a","i","l","s"," ","h","e","r","e">>,
        start |-> 3, duration |-> 4] >>

\* a response as the model records it: the operation, the HTTP status, the
\* video id, whether the id was in the store when the request came, the remote
\* calls the handler made, what failed, and the count and ids of the body
Response(op, status, video_id, was_present, embed_calls, chat_calls, cause, count, videos) ==
    [op |-> op, status |-> status, video_id |-> video_id,
     was_present |-> was_present, embed_calls |-> embed_calls,
     chat_calls |-> chat_calls, cause |-> cause, count |-> count,
     videos |-> videos]

NoResponse == Response("none", 0, None, FALSE, 0, 0, "none", 0, {})

ServiceInit ==
    /\ vector_stores = <<>>
    /\ vector_store = Absent
    /\ last_search = Absent
    /\ response = NoResponse

EmbedIdle ==
    /\ embed_texts = <<>>
    /\ embed_call = Absent
    /\ ingest_frame = Absent

ChunkerInit ==
    /\ ServiceInit
    /\ EmbedIdle
    /\ transcript = <<>>
    /\ chunk_size = 0
    /\ chunks_out = <<>>
    /\ pc = "input"

\* the caller builds the argument: one more segment, ordered by start time
AddSegment ==
    /\ pc = "input"
    /\ Len(transcript) < MaxSegs
    /\ \E c \in SegmentChoices :
          transcript' = Append(transcript, NextSegment(transcript, c))
    /\ UNCHANGED <<chunk_size, chunks_out, pc, service_vars, embed_vars, frame_vars>>

\* the caller passes the scenario's segments
UseScenario ==
    /\ pc = "input"
    /\ transcript = <<>>
    /\ transcript' = ScenarioSegments
    /\ chunk_size' = 5
    /\ pc' = "scenario"
    /\ UNCHANGED <<chunks_out, service_vars, embed_vars, frame_vars>>

\* the call chunks = create_chunks(transcript, chunk_size)
CallCreateChunks ==
    /\ \/ pc = "input" /\ chunk_size' \in 1..MaxChunkSize
       \/ pc = "scenario" /\ chunk_size' = chunk_size
    /\ chunks_out' = create_chunks(transcript, chunk_size')
    /\ pc' = "done"
    /\ UNCHANGED <<transcript, service_vars, embed_vars, frame_vars>>

ChunkerNext == AddSegment \/ UseScenario \/ CallCreateChunks

SpecChunker == ChunkerInit /\ [][ChunkerNext]_vars


(***************************************************************************)
(* The embedding provider and the vector index.                            *)
(***************************************************************************)
IngestChunkSize == 500       \* main.py 94: create_chunks(transcript, chunk_size=500)
DefaultBatchSize == 10       \* embeddings.py 21: batch_size: int = 10
AskTopK == 2                 \* main.py 139
SummaryTopK == 4             \* main.py 186

\* the number of components of an embedding vector in the model
EmbDim == 2
\* the largest transcript of the caption catalog fills this many batches
MaxBatches == 3

Chars == <<"a","b","c","d","e","f","g","h","i","j","k","l","m","n","o","p","q",
           "r","s","t","u","v","w","x","y","z"," ">>
CharCode(c) == CHOOSE i \in 1..Len(Chars) : Chars[i] = c

\* the remote model "mistral-embed": a fixed function from a text to a vector
ProviderEmbedding(text) ==
    [d \in 1..EmbDim |-> IF d <= Len(text) THEN CharCode(text[d]) % 3 ELSE 0]

\* a client that pauses after every batch
SleepsAfterAlways(i, batch_size, n) ==
    TRUE

\* embeddings.py 46: if i + batch_size < len(texts): time.sleep(0.5)
SleepsAfter(i, batch_size, n) ==
    i + batch_size < n

\* embeddings.py 35: batch = texts[i:i + batch_size], i the 0-based offset
BatchAt(texts, i, batch_size) ==
    SubSeq(texts, i + 1, IF i + batch_size < Len(texts)
                         THEN i + batch_size ELSE Len(texts))

\* embeddings.py 38-43: the remote call on one batch, one vector per text, in order
BatchEmbeddings(batch) ==
    [k \in 1..Len(batch) |-> ProviderEmbedding(batch[k])]

\* a client that stops at a failed batch and returns what it has
RECURSIVE embed_loop_partial(_, _, _, _, _, _, _, _)
embed_loop_partial(texts, batch_size, i, all_embeddings, calls, sleeps, sent, failAt) ==
    IF i >= Len(texts) \/ calls + 1 = failAt
    THEN [raised |-> FALSE, value |-> all_embeddings, calls |-> calls,
          sleeps |-> sleeps, sent |-> sent]
    ELSE
        LET batch == BatchAt(texts, i, batch_size)
            slept == SleepsAfter(i, batch_size, Len(texts))
        IN  embed_loop_partial(texts, batch_size, i + batch_size,
                       all_embeddings \o BatchEmbeddings(batch),
                       calls + 1,
                       IF slept THEN sleeps + 1 ELSE sleeps,
                       Append(sent, [batch |-> batch, slept |-> slept]),
                       failAt)

\* create_embeddings (embeddings.py 32-53): i is the offset of the batch, failAt
\* the number of the remote call that fails (0: none does); sent records each
\* batch handed to the provider and whether the loop paused after it
RECURSIVE embed_loop(_, _, _, _, _, _, _, _)
embed_loop(texts, batch_size, i, all_embeddings, calls, sleeps, sent, failAt) ==
    IF i >= Len(texts)
    THEN [raised |-> FALSE, value |-> all_embeddings, calls |-> calls,
          sleeps |-> sleeps, sent |-> sent]
    ELSE
        LET batch == BatchAt(texts, i, batch_size)
            slept == SleepsAfter(i, batch_size, Len(texts))
        IN  IF calls + 1 = failAt
            THEN [raised |-> TRUE, value |-> <<>>, calls |-> calls + 1,
                  sleeps |-> sleeps,
                  sent |-> Append(sent, [batch |-> batch, slept |-> FALSE])]
            ELSE embed_loop(texts, batch_size, i + batch_size,
                       all_embeddings \o BatchEmbeddings(batch),
                       calls + 1,
                       IF slept THEN sleeps + 1 ELSE sleeps,
                       Append(sent, [batch |-> batch, slept |-> slept]),
                       failAt)

create_embeddings(texts, batch_size, failAt) ==
    embed_loop(texts, batch_size, 0, <<>>, 0, 0, <<>>, failAt)

\* the remote calls create_embeddings issues for n texts when none fails
NumBatches(n, batch_size) == (n + batch_size - 1) \div batch_size

\* whether the environment fails one of the calls issued for n texts
RemoteFails(n, batch_size, failAt) ==
    failAt \in 1..NumBatches(n, batch_size)

\* VectorStore.__init__ (embeddings.py 15-19)
NewVectorStore == [index |-> Absent, chunks |-> <<>>]

\* build_index (embeddings.py 62-71) on the store self: the store afterwards,
\* whether the call raised, and the remote calls it made
build_index(self, chunks, failAt) ==
    LET self1 == [self EXCEPT !.chunks = chunks]
        texts == [k \in 1..Len(chunks) |-> chunks[k].text]
        e     == create_embeddings(texts, DefaultBatchSize, failAt)
    IN  IF e.raised
        THEN [self |-> self1, raised |-> TRUE, calls |-> e.calls]
        ELSE IF e.value = <<>>
        \* index.add of an array without a second dimension raises
        THEN [self |-> [self1 EXCEPT !.index = Some(<<>>)], raised |-> TRUE,
              calls |-> e.calls]
        ELSE [self |-> [self1 EXCEPT !.index = Some(e.value)], raised |-> FALSE,
              calls |-> e.calls]

\* squared Euclidean distance (IndexFlatL2)
RECURSIVE SqDist(_, _, _)
SqDist(u, v, d) ==
    IF d = 0 THEN 0 ELSE (u[d] - v[d]) * (u[d] - v[d]) + SqDist(u, v, d - 1)

\* the distance faiss reports for a slot it could not fill
FLT_MAX == 2147483647

\* faiss IndexFlatL2.search(query_vector, k) as called at embeddings.py 92:
\* k slots, the stored rows (0-based labels) nearest first, equal distances in
\* row order; a slot beyond the stored rows has label -1 and distance FLT_MAX
FaissSearch(index, query_vector, k) ==
    LET n == Len(index)
        dist(r) == SqDist(index[r], query_vector, Len(query_vector))
        before(a, b) == dist(a) < dist(b) \/ (dist(a) = dist(b) /\ a < b)
        rank(r) == Cardinality({a \in 1..n : before(a, r)}) + 1
    IN  [i \in 1..k |->
            IF i <= n
            THEN LET r == CHOOSE r \in 1..n : rank(r) = i
                 IN  [label |-> r - 1, distance |-> dist(r)]
            ELSE [label |-> -1, distance |-> FLT_MAX]]

\* Python's list indexing, negative indices counting from the end
PyIndex(list, idx) ==
    IF idx >= 0 THEN list[idx + 1] ELSE list[Len(list) + idx + 1]

\* embeddings.py 96: if idx < len(self.chunks)
KeepSlot(idx, chunks) ==
    idx < Len(chunks)

\* embeddings.py 97-99: the chunk's copy with the slot's distance as score
ResultOfSlot(chunks, slot, i) ==
    LET chunk == PyIndex(chunks, slot.label)
    IN  [text |-> chunk.text, start_time |-> chunk.start_time,
         end_time |-> chunk.end_time, score |-> slot.distance]

\* embeddings.py 94-99: the loop over the slots the index returned
RECURSIVE collect_results(_, _, _, _)
collect_results(chunks, found, i, results) ==
    IF i > Len(found) THEN results
    ELSE collect_results(chunks, found, i + 1,
            IF KeepSlot(found[i].label, chunks)
            THEN Append(results, ResultOfSlot(chunks, found[i], i))
            ELSE results)

\* VectorStore.search (embeddings.py 86-101)
search(self, query, top_k, failAt) ==
    IF self.index = Absent \/ Len(self.chunks) = 0
    THEN [raised |-> TRUE, value |-> <<>>, found |-> <<>>, calls |-> 0]
    ELSE
        LET e == create_embeddings(<<query>>, DefaultBatchSize, failAt)
        IN  IF e.raised
            THEN [raised |-> TRUE, value |-> <<>>, found |-> <<>>, calls |-> e.calls]
            ELSE LET found == FaissSearch(self.index[1], e.value[1], top_k)
                 IN  [raised |-> FALSE,
                      value |-> collect_results(self.chunks, found, 1, <<>>),
                      found |-> found, calls |-> e.calls]

(***************************************************************************)
(* The request handlers of main.py.  A handler is an async function        *)
(* without an await: it runs to its response before another one starts.    *)
(***************************************************************************)
VideoIds == {"v1", "v2"}

\* request.url: a URL one of the patterns matches, or one none matches
Urls == [kind : {"watch"}, id : VideoIds] \cup {[kind |-> "invalid", id |-> None]}

\* extract_video_id (ingestion.py 16-27)
extract_video_id(url) ==
    IF url.kind = "invalid"
    THEN [raised |-> TRUE, exc |-> "ValueError", value |-> None]
    ELSE [raised |-> FALSE, exc |-> None, value |-> url.id]

\* a caption text of n characters: the transcript's tag, a letter, padding
Letters == <<"a", "b", "c">>
CaptionText(tag, k, n) ==
    [i \in 1..n |-> IF i = 1 THEN tag
                    ELSE IF i = 2 THEN Letters[(k % 3) + 1] ELSE "x"]

\* n captions that each fill a chunk of their own
LongCaptions(tag, n) ==
    [k \in 1..n |-> [text |-> CaptionText(tag, k, IngestChunkSize - 1),
                     start |-> 60 * (k - 1), duration |-> 60]]

\* three short captions
ShortCaptions(tag) ==
    [k \in 1..3 |-> [text |-> CaptionText(tag, k, 2 + k),
                     start |-> 4 * (k - 1), duration |-> 5]]

\* what the caption source may hold for a video: the segments
\* _download_and_parse_subtitles returns (non-empty, trimmed texts)
Catalog ==
    {ShortCaptions("t"), LongCaptions("p", 1), LongCaptions("q", 2),
     LongCaptions("r", 5),
     LongCaptions("s", DefaultBatchSize * (MaxBatches - 1) + 1)}

\* fetch_transcript (ingestion.py 61-93): captions is what yt-dlp and the
\* subtitle download give: an error, or the segments of the first track that
\* parses to a non-empty list (<<>> when none does)
fetch_transcript(video_id, captions) ==
    IF captions.error \/ captions.segments = <<>>
    THEN [raised |-> TRUE, exc |-> "Exception", value |-> <<>>]
    ELSE [raised |-> FALSE, exc |-> None, value |-> captions.segments]

CaptionOutcomes ==
    {[error |-> TRUE, segments |-> <<>>]} \cup
    {[error |-> FALSE, segments |-> c] : c \in Catalog \cup {<<>>}}

\* a session store that appends a re-ingested video's chunks to the old ones
PutMerge(stores, video_id, store) ==
    [v \in DOMAIN stores \cup {video_id} |->
        IF v # video_id THEN stores[v]
        ELSE IF v \in DOMAIN stores
             THEN [index |-> Some(stores[v].index[1] \o store.index[1]),
                   chunks |-> stores[v].chunks \o store.chunks]
             ELSE store]

\* main.py 100: vector_stores[video_id] = vector_store
Put(stores, video_id, store) ==
    [v \in DOMAIN stores \cup {video_id} |->
        IF v = video_id THEN store ELSE stores[v]]

\* an ingest that registers the store whether or not the build raised
StoreAfterBuildAlways(stores, video_id, built) ==
    Put(stores, video_id, built.self)

\* main.py 98-100: the assignment is skipped when build_index raises
StoreAfterBuild(stores, video_id, built) ==
    IF built.raised THEN stores ELSE Put(stores, video_id, built.self)

\* main.py 108-115: ingest_video's except clauses
IngestStatus(exc) ==
    IF exc = "ValueError" THEN 400 ELSE 500

\* handlers that turn every exception into a 500
QueryStatusAll500(exc) ==
    500

\* main.py 158-161 and 215-218: HTTPException is re-raised with its own
\* status, any other exception becomes a 500
QueryStatus(exc) ==
    IF exc.type = "HTTPException" THEN exc.status_code ELSE 500

NotFound == [type |-> "HTTPException", status_code |-> 404]
OtherException == [type |-> "Exception", status_code |-> 0]

\* ingest_video (main.py 87-115)
ingest_video(stores, url, captions, failAt) ==
    LET id == extract_video_id(url)
    IN  IF id.raised
        THEN [stores |-> stores, vector_store |-> Absent,
              response |-> Response("ingest", IngestStatus(id.exc), None, FALSE,
                                    0, 0, "invalid_url", 0, {})]
        ELSE
        LET video_id == id.value
            t == fetch_transcript(video_id, captions)
        IN  IF t.raised
            THEN [stores |-> stores, vector_store |-> Absent,
                  response |-> Response("ingest", IngestStatus(t.exc), video_id,
                                        video_id \in DOMAIN stores,
                                        0, 0, "captions", 0, {})]
            ELSE
            LET chunks == create_chunks(t.value, IngestChunkSize)
                built  == build_index(NewVectorStore, chunks, failAt)
            IN  [stores |-> StoreAfterBuild(stores, video_id, built),
                 vector_store |-> Some(built.self),
                 response |->
                    Response("ingest",
                             IF built.raised THEN IngestStatus("Exception") ELSE 200,
                             video_id, video_id \in DOMAIN stores, built.calls, 0,
                             IF RemoteFails(Len(chunks), DefaultBatchSize, failAt)
                             THEN "embedding" ELSE "none",
                             IF built.raised THEN 0 ELSE Len(chunks), {})]

\* the digits of a natural number
Digit(d) == <<"0", "1", "2", "3", "4", "5", "6", "7", "8", "9">>[d + 1]

RECURSIVE Decimal(_)
Decimal(n) ==
    IF n < 10 THEN <<Digit(n)>> ELSE Decimal(n \div 10) \o <<Digit(n % 10)>>

\* the format specification :02d
Format02d(n) ==
    IF n < 10 THEN <<"0">> \o Decimal(n) ELSE Decimal(n)

\* embeddings.py 116-118 and 162-164: f"[{minutes:02d}:{seconds:02d}]"
ContextTimestamp(start_time) ==
    LET minutes == start_time \div 60
        seconds == start_time % 60
    IN  <<"[">> \o Format02d(minutes) \o <<":">> \o Format02d(seconds) \o <<"]">>

\* embeddings.py 120 and 166: the slice [:300]
ContextTextLimit == 300

Ellipsis == <<".", ".", ".">>

\* a context that takes each chunk's text whole
ContextChunkTextWhole(text) ==
    text

\* embeddings.py 120 and 166:
\* chunk['text'][:300] + "..." if len(chunk['text']) > 300 else chunk['text']
ContextChunkText(text) ==
    IF Len(text) > ContextTextLimit
    THEN SubSeq(text, 1, ContextTextLimit) \o Ellipsis
    ELSE text

\* generate_answer (embeddings.py 114-121) and generate_summary (160-167) build
\* the same context: for each chunk, in order, context_text gets a newline, the
\* timestamp, a space and the chunk text
context_block(context_chunks) ==
    [i \in 1..Len(context_chunks) |->
        [timestamp  |-> ContextTimestamp(context_chunks[i].start_time),
         chunk_text |-> ContextChunkText(context_chunks[i].text)]]

\* ask_question (main.py 129-161) and get_summary (175-218): the lookup, the
\* search with top_k, the generation; chatFails: the chat call raises
query_video(op, stores, video_id, query, top_k, failAt, chatFails) ==
    IF video_id \notin DOMAIN stores
    THEN [last_search |-> Absent,
          response |-> Response(op, QueryStatus(NotFound), video_id, FALSE,
                                0, 0, "not_found", 0, {})]
    ELSE
        LET found == search(stores[video_id], query, top_k, failAt)
        IN  IF found.raised
            THEN [last_search |-> Absent,
                  response |-> Response(op, QueryStatus(OtherException), video_id,
                                        TRUE, found.calls, 0,
                                        IF RemoteFails(1, DefaultBatchSize, failAt)
                                        THEN "embedding" ELSE "index", 0, {})]
            ELSE
                [last_search |-> Some([video_id |-> video_id, top_k |-> top_k,
                                       query |-> query, found |-> found.found,
                                       results |-> found.value,
                                       context |-> context_block(found.value)]),
                 response |->
                    IF chatFails
                    THEN Response(op, QueryStatus(OtherException), video_id, TRUE,
                                  found.calls, 1, "generation", 0, {})
                    ELSE Response(op, 200, video_id, TRUE, found.calls, 1,
                                  "none", Len(found.value), {})]

Questions == {<<"b">>, <<"c", "a">>}
SummaryQuery == <<"m","a","i","n"," ","t","o","p","i","c","s"," ","k","e","y"," ","p","o","i","n","t","s"," ","s","u","m","m","a","r","y"," ","o","v","e","r","v","i","e","w">>

Init ==
    /\ ServiceInit
    /\ EmbedIdle
    /\ transcript = <<>>
    /\ chunk_size = 0
    /\ chunks_out = <<>>
    /\ pc = "service"

\* POST /ingest
Ingest ==
    \E url \in Urls, captions \in CaptionOutcomes,
       failAt \in 0..MaxBatches :
        LET r == ingest_video(vector_stores, url, captions, failAt)
        IN  /\ vector_stores' = r.stores
            /\ vector_store' = r.vector_store
            /\ last_search' = Absent
            /\ response' = r.response
            /\ UNCHANGED <<chunker_vars, embed_vars, frame_vars>>

\* POST /ask
Ask ==
    \E video_id \in VideoIds, question \in Questions, failAt \in 0..1,
       chatFails \in BOOLEAN :
        LET r == query_video("ask", vector_stores, video_id, question, AskTopK,
                             failAt, chatFails)
        IN  /\ last_search' = r.last_search
            /\ response' = r.response
            /\ vector_store' = Absent
            /\ UNCHANGED <<vector_stores, chunker_vars, embed_vars, frame_vars>>

\* POST /summary
Summary ==
    \E video_id \in VideoIds, failAt \in 0..1, chatFails \in BOOLEAN :
        LET r == query_video("summary", vector_stores, video_id, SummaryQuery,
                             SummaryTopK, failAt, chatFails)
        IN  /\ last_search' = r.last_search
            /\ response' = r.response
            /\ vector_store' = Absent
            /\ UNCHANGED <<vector_stores, chunker_vars, embed_vars, frame_vars>>

\* GET /videos (main.py 226-229)
ListVideos ==
    /\ response' = Response("videos", 200, None, FALSE, 0, 0, "none",
                            Cardinality(DOMAIN vector_stores), DOMAIN vector_stores)
    /\ last_search' = Absent
    /\ vector_store' = Absent
    /\ UNCHANGED <<vector_stores, chunker_vars, embed_vars, frame_vars>>

Next == Ingest \/ Ask \/ Summary \/ ListVideos

Spec == Init /\ [][Next]_vars

(***************************************************************************)
(* create_embeddings called on its own: any list of up to MaxTexts texts,  *)
(* any batch size up to MaxBatchSize, any one remote call failing or none. *)
(***************************************************************************)
MaxTexts == 5
MaxBatchSize == 3
EmbedTexts == {<<"a">>, <<"b">>, <<"c", "a">>}

EmbedInit ==
    /\ ServiceInit
    /\ EmbedIdle
    /\ transcript = <<>>
    /\ chunk_size = 0
    /\ chunks_out = <<>>
    /\ pc = "embed_input"

\* the caller builds the argument: one more text
AddText ==
    /\ pc = "embed_input"
    /\ Len(embed_texts) < MaxTexts
    /\ \E t \in EmbedTexts : embed_texts' = Append(embed_texts, t)
    /\ UNCHANGED <<embed_call, chunker_vars, service_vars, frame_vars>>

\* the call create_embeddings(texts, batch_size)
CallCreateEmbeddings ==
    /\ pc = "embed_input"
    /\ \E b \in 1..MaxBatchSize, failAt \in 0..MaxTexts :
          embed_call' = Some([batch_size |-> b, failAt |-> failAt,
                              out |-> create_embeddings(embed_texts, b, failAt)])
    /\ pc' = "embed_done"
    /\ UNCHANGED <<embed_texts, transcript, chunk_size, chunks_out, service_vars,
                   frame_vars>>

EmbedNext == AddText \/ CallCreateEmbeddings

SpecEmbed == EmbedInit /\ [][EmbedNext]_vars

(***************************************************************************)
(* ingest_video followed statement by statement: the requests are served   *)
(* one at a time, and between two statements of an ingest the session      *)
(* store is what the earlier requests left.  response is NoResponse while  *)
(* the request is being served.                                            *)
(***************************************************************************)
Frame(video_id, chunks, self, i, all_embeddings, calls, at) ==
    [video_id |-> video_id, chunks |-> chunks, self |-> self, i |-> i,
     all_embeddings |-> all_embeddings, calls |-> calls, at |-> at]

StepsInit ==
    /\ ServiceInit
    /\ EmbedIdle
    /\ transcript = <<>>
    /\ chunk_size = 0
    /\ chunks_out = <<>>
    /\ pc = "steps"

\* main.py 87-97: the video id, the captions, the chunks, a new VectorStore;
\* an invalid URL or a caption failure ends the request here
StartIngest ==
    /\ pc = "steps"
    /\ ingest_frame = Absent
    /\ \E url \in Urls, captions \in CaptionOutcomes :
          LET id == extract_video_id(url)
              t  == fetch_transcript(id.value, captions)
          IN  IF id.raised \/ t.raised
              THEN LET r == ingest_video(vector_stores, url, captions, 0)
                   IN  /\ vector_stores' = r.stores
                       /\ vector_store' = r.vector_store
                       /\ response' = r.response
                       /\ UNCHANGED ingest_frame
              ELSE /\ ingest_frame' =
                        Some(Frame(id.value, create_chunks(t.value, IngestChunkSize),
                                   NewVectorStore, 0, <<>>, 0, "build_index"))
                   /\ response' = NoResponse
                   /\ UNCHANGED <<vector_stores, vector_store>>
    /\ UNCHANGED <<last_search, chunker_vars, embed_vars>>

\* embeddings.py 62: self.chunks = chunks
SetChunks ==
    /\ ingest_frame # Absent
    /\ ingest_frame[1].at = "build_index"
    /\ LET f == ingest_frame[1]
       IN  ingest_frame' = Some([f EXCEPT !.self.chunks = f.chunks,
                                          !.at = "create_embeddings"])
    /\ UNCHANGED <<service_vars, chunker_vars, embed_vars>>

\* embeddings.py 34-51: one turn of the loop, whose remote call succeeds or
\* raises; the exception ends the request with a 500 (main.py 112-115)
EmbedBatch ==
    /\ ingest_frame # Absent
    /\ ingest_frame[1].at = "create_embeddings"
    /\ ingest_frame[1].i < Len(ingest_frame[1].chunks)
    /\ LET f     == ingest_frame[1]
           texts == [k \in 1..Len(f.chunks) |-> f.chunks[k].text]
           batch == BatchAt(texts, f.i, DefaultBatchSize)
       IN  \E fails \in BOOLEAN :
              IF fails
              THEN /\ ingest_frame' = Absent
                   /\ vector_stores' =
                        StoreAfterBuild(vector_stores, f.video_id,
                                        [self |-> f.self, raised |-> TRUE])
                   /\ vector_store' = Some(f.self)
                   /\ response' =
                        Response("ingest", IngestStatus("Exception"), f.video_id,
                                 f.video_id \in DOMAIN vector_stores,
                                 f.calls + 1, 0, "embedding", 0, {})
              ELSE /\ ingest_frame' =
                        Some([f EXCEPT !.all_embeddings = @ \o BatchEmbeddings(batch),
                                       !.i = @ + DefaultBatchSize,
                                       !.calls = @ + 1])
                   /\ UNCHANGED <<vector_stores, vector_store, response>>
    /\ UNCHANGED <<last_search, chunker_vars, embed_vars>>

\* embeddings.py 53 and 66-71: the loop is over; the embeddings become the index
\* (index.add of an array without a second dimension raises)
AddToIndex ==
    /\ ingest_frame # Absent
    /\ ingest_frame[1].at = "create_embeddings"
    /\ ingest_frame[1].i >= Len(ingest_frame[1].chunks)
    /\ LET f     == ingest_frame[1]
           self1 == [f.self EXCEPT !.index = Some(f.all_embeddings)]
       IN  IF f.all_embeddings = <<>>
           THEN /\ ingest_frame' = Absent
                /\ vector_stores' =
                     StoreAfterBuild(vector_stores, f.video_id,
                                     [self |-> self1, raised |-> TRUE])
                /\ vector_store' = Some(self1)
                /\ response' =
                     Response("ingest", IngestStatus("Exception"), f.video_id,
                              f.video_id \in DOMAIN vector_stores,
                              f.calls, 0, "none", 0, {})
           ELSE /\ ingest_frame' = Some([f EXCEPT !.self = self1, !.at = "store"])
                /\ UNCHANGED <<vector_stores, vector_store, response>>
    /\ UNCHANGED <<last_search, chunker_vars, embed_vars>>

\* main.py 100-106: vector_stores[video_id] = vector_store, and the 200
StoreBuilt ==
    /\ ingest_frame # Absent
    /\ ingest_frame[1].at = "store"
    /\ LET f == ingest_frame[1]
       IN  /\ vector_stores' =
                StoreAfterBuild(vector_stores, f.video_id,
                                [self |-> f.self, raised |-> FALSE])
           /\ vector_store' = Some(f.self)
           /\ response' =
                Response("ingest", 200, f.video_id,
                         f.video_id \in DOMAIN vector_stores,
                         f.calls, 0, "none", Len(f.chunks), {})
    /\ ingest_frame' = Absent
    /\ UNCHANGED <<last_search, chunker_vars, embed_vars>>

StepsNext == StartIngest \/ SetChunks \/ EmbedBatch \/ AddToIndex \/ StoreBuilt

SpecSteps == StepsInit /\ [][StepsNext]_vars

(***************************************************************************)
(* Vocabulary of the chunker's properties.                                 *)
(***************************************************************************)
NoSpaces(s) == SelectSeq(s, LAMBDA c : c \notin Whitespace)

\* the texts of segments lo..hi of tr, each followed by the separator
RECURSIVE JoinRange(_, _, _)
JoinRange(tr, lo, hi) ==
    IF lo > hi THEN <<>> ELSE tr[lo].text \o <<" ">> \o JoinRange(tr, lo + 1, hi)

RECURSIVE ConcatTexts(_, _)
ConcatTexts(recs, i) ==
    IF i > Len(recs) THEN <<>> ELSE recs[i].text \o ConcatTexts(recs, i + 1)

\* a contiguous exhaustive partition of segments 1..n: the set of the last
\* segment of every part
CutSets(n) == {S \in SUBSET (1..n) : n = 0 \/ n \in S}
Hi(S, j) == CHOOSE c \in S : Cardinality({d \in S : d <= c}) = j
Lo(S, j) == IF j = 1 THEN 1 ELSE Hi(S, j - 1) + 1

\* chunk j holds exactly the segments of part j, whole and in order
TextPartition(tr, chunks, S) ==
    /\ Cardinality(S) = Len(chunks)
    /\ \A j \in 1..Len(chunks) :
          chunks[j].text = strip(JoinRange(tr, Lo(S, j), Hi(S, j)))

\* what _download_and_parse_subtitles produces (ingestion.py 114-120):
\* texts that are non-empty and carry no surrounding whitespace
TrimmedSegments(tr) ==
    \A i \in 1..Len(tr) : tr[i].text # <<>> /\ strip(tr[i].text) = tr[i].text

(***************************************************************************)
(* C1: create_chunks partitions the segments contiguously and exhaustively *)
(* (every chunk's text is the trimmed, space-separated text of one         *)
(* contiguous run of whole segments, the runs in segment order covering    *)
(* every segment once), and the chunk texts concatenated reproduce the     *)
(* segment texts concatenated, spaces ignored.                             *)
(***************************************************************************)
C1_PartitionLossless ==
    pc = "done" =>
        /\ \E S \in CutSets(Len(transcript)) :
              TextPartition(transcript, chunks_out, S)
        /\ NoSpaces(ConcatTexts(chunks_out, 1)) = NoSpaces(ConcatTexts(transcript, 1))

\* three segments, one of them with surrounding spaces, in two chunks
C1_Witness ==
    /\ pc = "done"
    /\ Len(transcript) = 3
    /\ Len(chunks_out) = 2
    /\ \E i \in 1..3 : transcript[i].text = <<" ", "a">>

(***************************************************************************)
(* C7 as stated: every chunk but the final one has a text of at least      *)
(* chunk_size characters.                                                  *)
(***************************************************************************)
C7_AsStated ==
    pc = "done" =>
        \A j \in 1..(Len(chunks_out) - 1) : Len(chunks_out[j].text) >= chunk_size

(***************************************************************************)
(* C7 amended: every chunk but the final one was flushed from a buffer     *)
(* (its segments' texts, each followed by one space) of at least           *)
(* chunk_size characters; for segment texts that are non-empty and         *)
(* trimmed, its text has at least chunk_size - 1 characters.               *)
(***************************************************************************)
C7_BufferReachesSize ==
    pc = "done" =>
        /\ \E S \in CutSets(Len(transcript)) :
              /\ TextPartition(transcript, chunks_out, S)
              /\ \A j \in 1..(Len(chunks_out) - 1) :
                    Len(JoinRange(transcript, Lo(S, j), Hi(S, j))) >= chunk_size
        /\ TrimmedSegments(transcript) =>
              \A j \in 1..(Len(chunks_out) - 1) :
                  Len(chunks_out[j].text) >= chunk_size - 1

\* a chunk that is not the final one and is one character short of chunk_size
C7_Witness ==
    /\ pc = "done"
    /\ TrimmedSegments(transcript)
    /\ Len(chunks_out) >= 2
    /\ Len(chunks_out[1].text) = chunk_size - 1

(***************************************************************************)
(* C8 as stated: the scenario's two segments with chunk_size 5 give the    *)
(* single chunk "intro details here" from 0 to 7.                          *)
(***************************************************************************)
C8_AsStated ==
    (pc = "done" /\ transcript = ScenarioSegments /\ chunk_size = 5) =>
        chunks_out =
            << [text |-> <<"i","n","t","r","o"," ","d","e","t","a","i","l","s",
                           " ","h","e","r","e">>,
                start_time |-> 0, end_time |-> 7] >>

(***************************************************************************)
(* C8 amended: the scenario's two segments with chunk_size 5 give two      *)
(* chunks, "intro" from 0 to 3 and "details here" from 3 to 7.             *)
(***************************************************************************)
C8_ScenarioTwoChunks ==
    (pc = "done" /\ transcript = ScenarioSegments /\ chunk_size = 5) =>
        chunks_out =
            << [text |-> <<"i","n","t","r","o">>, start_time |-> 0, end_time |-> 3],
               [text |-> <<"d","e","t","a","i","l","s"," ","h","e","r","e">>,
                start_time |-> 3, end_time |-> 7] >>

C8_Witness ==
    pc = "done" /\ transcript = ScenarioSegments /\ chunk_size = 5

(***************************************************************************)
(* C9: for segments ordered by start time with durations >= 0, chunk       *)
(* start times are non-decreasing, every chunk starts at the start of its  *)
(* first segment, ends at start + duration of its last segment, and starts *)
(* no later than it ends.                                                  *)
(***************************************************************************)
OrderedSegments(tr) ==
    /\ \A i \in 1..Len(tr) : tr[i].duration >= 0
    /\ \A i \in 1..(Len(tr) - 1) : tr[i].start <= tr[i + 1].start

C9_ChunkTimes ==
    (pc = "done" /\ OrderedSegments(transcript)) =>
        /\ \E S \in CutSets(Len(transcript)) :
              /\ TextPartition(transcript, chunks_out, S)
              /\ \A j \in 1..Len(chunks_out) :
                    /\ chunks_out[j].start_time = transcript[Lo(S, j)].start
                    /\ chunks_out[j].end_time =
                          transcript[Hi(S, j)].start + transcript[Hi(S, j)].duration
        /\ \A j \in 1..Len(chunks_out) :
              chunks_out[j].start_time <= chunks_out[j].end_time
        /\ \A j \in 1..(Len(chunks_out) - 1) :
              chunks_out[j].start_time <= chunks_out[j + 1].start_time

\* a first chunk of two segments with different starts, overlapped by the next
C9_Witness ==
    /\ pc = "done"
    /\ Len(transcript) = 3
    /\ Len(chunks_out) = 2
    /\ transcript[1].start < transcript[2].start
    /\ chunks_out[1].text = <<"a", " ", "a">>
    /\ chunks_out[2].start_time < chunks_out[1].end_time

(***************************************************************************)
(* Vocabulary of the service's properties.                                 *)
(***************************************************************************)
Min(a, b) == IF a <= b THEN a ELSE b
Range(f) == {f[i] : i \in DOMAIN f}
WithoutScore(r) ==
    [text |-> r.text, start_time |-> r.start_time, end_time |-> r.end_time]
\* the store the latest search ran on
SearchedStore == vector_stores[last_search[1].video_id]

(***************************************************************************)
(* C2 as stated: a search with top_k on a store of N chunks returns        *)
(* exactly min(top_k, N) results, none of them a padding entry and no      *)
(* chunk twice.                                                            *)
(***************************************************************************)
C2_AsStated ==
    last_search # Absent =>
        LET ls == last_search[1]
            results == ls.results
        IN  /\ Len(results) = Min(ls.top_k, Len(SearchedStore.chunks))
            /\ \A i \in 1..Len(results) : results[i].score # FLT_MAX
            /\ \A i, j \in 1..Len(results) :
                  i # j => WithoutScore(results[i]) # WithoutScore(results[j])

(***************************************************************************)
(* C3 as stated: after a failed ingest of a video id, the id is absent     *)
(* from vector_stores.                                                     *)
(***************************************************************************)
C3_AsStated ==
    (response.op = "ingest" /\ response.status # 200 /\ response.video_id # None) =>
        response.video_id \notin DOMAIN vector_stores

(***************************************************************************)
(* C3 amended: a failed ingest leaves vector_stores exactly as it was, so  *)
(* the video id is absent afterwards if and only if it was absent before   *)
(* (the entry of an earlier successful ingest of the id stays).            *)
(***************************************************************************)
C3_FailedIngestKeepsStore ==
    [][(response'.op = "ingest" /\ response'.status # 200) =>
          /\ vector_stores' = vector_stores
          /\ response'.video_id # None =>
                (response'.video_id \in DOMAIN vector_stores'
                    <=> response'.video_id \in DOMAIN vector_stores)]_vars

\* a failed ingest of an id that an earlier ingest had stored
C3_Witness ==
    /\ response.op = "ingest"
    /\ response.status = 500
    /\ response.video_id \in DOMAIN vector_stores

(***************************************************************************)
(* C4: a successful ingest of an id already in the store leaves the number *)
(* of listed ids unchanged and makes the id's entry the store built by     *)
(* this ingest alone; no other request changes an entry, and every search  *)
(* returns only chunks of the id's current entry, the latest build.        *)
(***************************************************************************)
C4_ReingestReplaces ==
    [][/\ (response'.op = "ingest" /\ response'.status = 200
              /\ response'.video_id \in DOMAIN vector_stores) =>
            /\ DOMAIN vector_stores' = DOMAIN vector_stores
            /\ vector_stores'[response'.video_id] = vector_store'[1]
            /\ Len(vector_stores'[response'.video_id].chunks) = response'.count
            /\ \A v \in DOMAIN vector_stores :
                  v # response'.video_id => vector_stores'[v] = vector_stores[v]
       /\ response'.op # "ingest" => vector_stores' = vector_stores
       /\ last_search' # Absent =>
            \A i \in 1..Len(last_search'[1].results) :
                WithoutScore(last_search'[1].results[i])
                    \in Range(vector_stores'[last_search'[1].video_id].chunks)]_vars

\* a re-ingest that replaced an entry of other chunks, beside another video
C4_Witness ==
    /\ response.op = "ingest"
    /\ response.status = 200
    /\ response.was_present
    /\ Cardinality(DOMAIN vector_stores) = 2
    /\ Len(vector_stores[response.video_id].chunks) = 2

(***************************************************************************)
(* C5: an ask or summary for a video id that is not in the store answers   *)
(* 404 without a call of the embedding or the generation provider; when    *)
(* the id is there and a remote call fails, the answer is 500.             *)
(***************************************************************************)
C5_NotFoundIs404 ==
    response.op \in {"ask", "summary"} =>
        /\ response.video_id \notin DOMAIN vector_stores =>
              /\ response.status = 404
              /\ response.embed_calls = 0
              /\ response.chat_calls = 0
        /\ response.cause \in {"embedding", "generation"} =>
              /\ response.status = 500
              /\ response.video_id \in DOMAIN vector_stores

\* a 404 for one id while the other id is in the store
C5_Witness ==
    /\ response.op = "summary"
    /\ response.status = 404
    /\ DOMAIN vector_stores # {}

(***************************************************************************)
(* C6: when a remote embedding call of an ingest fails, the ingest answers *)
(* 500, the store it was building has no index (no partial vector list was *)
(* indexed), and vector_stores is unchanged.                               *)
(***************************************************************************)
C6_AllOrNothing ==
    [][(response'.op = "ingest" /\ response'.cause = "embedding") =>
          /\ response'.status = 500
          /\ vector_store' # Absent
          /\ vector_store'[1].index = Absent
          /\ vector_stores' = vector_stores]_vars

\* the second of three batches failed
C6_Witness ==
    /\ response.op = "ingest"
    /\ response.cause = "embedding"
    /\ response.embed_calls = 2
    /\ vector_store # Absent
    /\ NumBatches(Len(vector_store[1].chunks), DefaultBatchSize) = 3

(***************************************************************************)
(* C10 as stated: the results of a search are in non-decreasing distance,  *)
(* equal distances in row order, and each result carries the text and      *)
(* times of the chunk stored at the row the index returned for it, with    *)
(* that row's distance as its score.                                       *)
(***************************************************************************)
C10_AsStated ==
    last_search # Absent =>
        LET ls == last_search[1]
            results == ls.results
            q == ProviderEmbedding(ls.query)
            row(i) == ls.found[i].label
        IN  /\ Len(results) <= Len(ls.found)
            /\ \A i \in 1..Len(results) :
                  /\ row(i) \in 0..(Len(SearchedStore.chunks) - 1)
                  /\ WithoutScore(results[i]) = SearchedStore.chunks[row(i) + 1]
                  /\ results[i].score =
                        SqDist(SearchedStore.index[1][row(i) + 1], q, Len(q))
            /\ \A i, j \in 1..Len(results) :
                  i < j => \/ results[i].score < results[j].score
                           \/ /\ results[i].score = results[j].score
                              /\ row(i) < row(j)

(***************************************************************************)
(* C11: when no remote call fails, create_embeddings on n texts with batch *)
(* size b returns n vectors, the i-th the provider's embedding of the i-th *)
(* text; it sends ceil(n/b) batches of at most b texts each, which         *)
(* together are the texts in input order, and it pauses after every batch  *)
(* but the final one.                                                      *)
(***************************************************************************)
CeilDiv(n, b) == CHOOSE c \in 0..n : c * b >= n /\ (c = 0 \/ (c - 1) * b < n)

RECURSIVE ConcatBatches(_, _)
ConcatBatches(sent, k) ==
    IF k > Len(sent) THEN <<>> ELSE sent[k].batch \o ConcatBatches(sent, k + 1)

C11_EmbeddingsInOrder ==
    (pc = "embed_done"
        /\ ~RemoteFails(Len(embed_texts), embed_call[1].batch_size, embed_call[1].failAt)) =>
        LET out == embed_call[1].out
            b == embed_call[1].batch_size
            n == Len(embed_texts)
        IN  /\ ~out.raised
            /\ Len(out.value) = n
            /\ \A i \in 1..n : out.value[i] = ProviderEmbedding(embed_texts[i])
            /\ out.calls = CeilDiv(n, b)
            /\ Len(out.sent) = out.calls
            /\ \A k \in 1..Len(out.sent) :
                  /\ Len(out.sent[k].batch) \in 1..b
                  /\ out.sent[k].slept <=> k < Len(out.sent)
            /\ ConcatBatches(out.sent, 1) = embed_texts
            /\ out.sleeps = IF out.calls = 0 THEN 0 ELSE out.calls - 1

\* five texts in batches of two: three calls, the last of one text
C11_Witness ==
    /\ pc = "embed_done"
    /\ Len(embed_texts) = 5
    /\ embed_call[1].batch_size = 2
    /\ embed_call[1].failAt = 0
    /\ embed_call[1].out.calls = 3
    /\ embed_texts[1] # embed_texts[2]

(***************************************************************************)
(* C12: in every state, also between two statements of an ingest of the    *)
(* same video id, every VectorStore of the session store has an index,     *)
(* with as many vectors as the store has chunks.                           *)
(***************************************************************************)
C12_StoredIsBuilt ==
    \A v \in DOMAIN vector_stores :
        /\ vector_stores[v].index # Absent
        /\ Len(vector_stores[v].index[1]) = Len(vector_stores[v].chunks)

\* a second ingest of a stored video id has embedded its first batch and not
\* its last: its own store has new chunks and no index
C12_Witness ==
    /\ ingest_frame # Absent
    /\ ingest_frame[1].video_id \in DOMAIN vector_stores
    /\ ingest_frame[1].self.index = Absent
    /\ ingest_frame[1].self.chunks # <<>>
    /\ ingest_frame[1].i > 0
    /\ ingest_frame[1].i < Len(ingest_frame[1].chunks)
    /\ vector_stores[ingest_frame[1].video_id].chunks # ingest_frame[1].chunks

(***************************************************************************)
(* C13 as stated: when embedding fails during build_index, the chunks and  *)
(* the index of the store it was called on are as they were before the     *)
(* call; ingest_video calls it on a new VectorStore, which has no index    *)
(* and no chunks.                                                          *)
(***************************************************************************)
C13_AsStated ==
    (response.op = "ingest" /\ response.cause = "embedding") =>
        /\ vector_store # Absent
        /\ vector_store[1].index = NewVectorStore.index
        /\ vector_store[1].chunks = NewVectorStore.chunks

(***************************************************************************)
(* C14 as stated: in the context built by generate_answer and              *)
(* generate_summary, the text of each retrieved chunk after its timestamp  *)
(* is at most 300 characters long.                                         *)
(***************************************************************************)
C14_AsStated ==
    last_search # Absent =>
        \A i \in 1..Len(last_search[1].context) :
            Len(last_search[1].context[i].chunk_text) <= ContextTextLimit

(***************************************************************************)
(* C14 amended: the text of each retrieved chunk after its timestamp is    *)
(* the chunk's text when that has at most 300 characters, and otherwise    *)
(* its first 300 characters followed by "...", 303 characters in all; the  *)
(* context has one such entry per result, in the order of the results.     *)
(***************************************************************************)
C14_ContextTextBounded ==
    last_search # Absent =>
        LET results == last_search[1].results
            context == last_search[1].context
        IN  /\ Len(context) = Len(results)
            /\ \A i \in 1..Len(context) :
                  LET text == results[i].text
                      chunk_text == context[i].chunk_text
                  IN  /\ Len(chunk_text) <= ContextTextLimit + 3
                      /\ Len(text) <= ContextTextLimit => chunk_text = text
                      /\ Len(text) > ContextTextLimit =>
                            /\ Len(chunk_text) = ContextTextLimit + 3
                            /\ \A k \in 1..ContextTextLimit : chunk_text[k] = text[k]
                            /\ \A k \in 1..3 :
                                  chunk_text[ContextTextLimit + k] = "."

\* a summary over a chunk longer than 300 characters and an answer over a
\* chunk that is shorter both occur; this is the former
C14_Witness ==
    /\ last_search # Absent
    /\ response.op = "summary"
    /\ \E i \in 1..Len(last_search[1].context) :
          /\ Len(last_search[1].results[i].text) > ContextTextLimit
          /\ Len(last_search[1].context[i].chunk_text) = ContextTextLimit + 3
          /\ last_search[1].context[i].timestamp = <<"[", "0", "1", ":", "0", "0", "]">>

=============================================================================
